---- MODULE Spec2Model ----
(***************************************************************************)
(* The chunked transcription pipeline of src/app.py: one submitted task,   *)
(* its background worker (transcribe_thread / transcribe_audio_openai /    *)
(* split_audio_if_needed), the shared status and results dictionaries and  *)
(* the polling read path get_status.                                       *)
(*                                                                         *)
(* Sizes are whole megabytes, times are whole milliseconds (the code's     *)
(* float seconds are kept as integer milliseconds), progress values are    *)
(* exact fractions num/den.  The worker's position pc is named after the   *)
(* source line it is about to execute; every write to the shared           *)
(* dictionaries is a step of its own, because the polling thread can run   *)
(* between any two of them.  Display-only fields of the status record      *)
(* (eta, debug, download_progress, download_speed, start_time) are not     *)
(* tracked.                                                                *)
(***************************************************************************)
EXTENDS Integers, Sequences, FiniteSets, TLC

VARIABLES
    pc,                   \* position of the worker / request handler
    http_response,        \* what start_transcription answered
    transcription_status, \* dict task_id -> status record        (app.py:32)
    transcription_results,\* dict task_id -> results record       (app.py:33)
    client_configured,    \* client is not None                   (app.py:40)
    files,                \* temporary audio files on disk: id -> [size_mb, duration_ms]
    txt_file,             \* state of the text output file
    srt_file,             \* state of the subtitle output file
    txt_content,          \* the text file's content, once it is written
    srt_content,          \* the strings written to the subtitle file, in order
    fmt_input,            \* an argument of format_timestamp (ms)
    fmt_output,           \* what format_timestamp returned for it
    render_transcript,    \* a transcript handed to the output writer
    renders,              \* the two output files after each rendering of it
    num_chunks,           \* split_audio_if_needed: num_chunks
    total_duration_ms,    \* split_audio_if_needed: total_duration_ms
    chunk_files,          \* split_audio_if_needed: chunk_files
    chunk_ranges,         \* the [start_time, end_time) of every exported chunk
    split_failed,         \* the except branch of split_audio_if_needed was taken
    audio_chunks,         \* transcribe_audio_openai: audio_chunks
    audio_duration,       \* transcribe_audio_openai: audio_duration (ms)
    duration_measured,    \* get_audio_duration returned from its try branch
    i,                    \* loop index of the loop the worker is in
    all_segments,         \* transcribe_audio_openai: all_segments
    full_text,            \* transcribe_audio_openai: full_text
    exc,                  \* the exception being handled ("" when none)
    backend_calls,        \* log: chunk index of every backend call started
    backend_returned,     \* log: what the backend returned for each chunk
    status_hist,          \* log: every value written to the 'status' field
    downloaded_size_mb,   \* log: the size of the asset as it was downloaded
    feed_has_audio,       \* log: some entry of the requested feed had an audio enclosure
    feed_without_audio,   \* log: the requested feed had entries, none with audio
    snapshot              \* the last response of get_status

vars == <<pc, http_response, transcription_status, transcription_results,
          client_configured, files, txt_file, srt_file, txt_content,
          srt_content, fmt_input, fmt_output, render_transcript, renders,
          num_chunks,
          total_duration_ms, chunk_files, chunk_ranges, split_failed,
          audio_chunks, audio_duration, duration_measured, i, all_segments,
          full_text, exc, backend_calls, backend_returned, status_hist,
          downloaded_size_mb, feed_has_audio, feed_without_audio, snapshot>>

-----------------------------------------------------------------------------
(* Bounds of the model *)

MaxChunks == 4      \* assets of up to MaxChunks chunks are downloaded
MaxDurK == 2        \* asset durations up to MaxDurK * 150000 ms (+1)
MaxChunkMB == 2     \* exported chunk files are 1..MaxChunkMB megabytes
MaxEntries == 2     \* feeds of up to MaxEntries entries
MaxFormatMs == 2500 \* format_timestamp is applied to 0..MaxFormatMs ms
MaxRenders == 2     \* one transcript is rendered up to MaxRenders times

(* Program constants *)

max_size_mb == 24
task_id == 1        \* the uuid of the one submitted task
other_task_id == 2  \* the uuid of a second request, running at the same time
Orig == 0           \* file id of temp_audio_<task_id>; chunk k is file id k

\* Asset sizes: at, just above and well below every multiple of the ceiling.
Sizes == {max_size_mb * k + r : k \in 0..(MaxChunks - 1), r \in {0, 2}} \ {0}
\* Asset durations, divisible and not divisible by the chunk counts.
Durations == {150000 * k + r : k \in 1..MaxDurK, r \in {0, 1}}
ChunkSizes == 1..MaxChunkMB
\* Timestamps in whole milliseconds, the example of the documentation included.
TimestampInputs == 0..MaxFormatMs \cup {3725400}

-----------------------------------------------------------------------------
(* Values *)

St(name) == [k |-> 0, name |-> name, n |-> 0]
\* f'transcribing chunk {i+1}/{len(audio_chunks)}' for the 0-based index idx
ChunkStatusMutant(idx, n) == [k |-> idx, name |-> "transcribing chunk", n |-> n]
ChunkStatus(idx, n) == [k |-> idx + 1, name |-> "transcribing chunk", n |-> n]

Frac(num, den) == [num |-> num, den |-> den]
Whole(x) == Frac(x, 1)
FracLeq(p, q) == p.num * q.den <= q.num * p.den

\* progress = 10 + (i / len(audio_chunks)) * 60
ChunkProgress(idx, n) == Frac(10 * n + 60 * idx, n)
\* the value written together with status 'processing'
ProcessingProgressMutant == Whole(100)
ProcessingProgress == Whole(50)

NoFiles == [f \in {} |-> [size_mb |-> 0, duration_ms |-> 0]]
NoDict == [t \in {} |-> 0]
NoSnapshot == [present |-> FALSE, status |-> St(""), progress |-> Whole(0),
               error |-> "", download_txt |-> FALSE, download_srt |-> FALSE]

Exists(f) == f \in DOMAIN files
Create(fs, f, size, dur) ==
    [g \in DOMAIN fs \cup {f} |->
        IF g = f THEN [size_mb |-> size, duration_ms |-> dur] ELSE fs[g]]
RemoveMutant(fs, f) == fs
Remove(fs, f) == [g \in DOMAIN fs \ {f} |-> fs[g]]

\* a write that reaches the entry of every task in the store
SetFieldMutant(field, value) ==
    [t \in DOMAIN transcription_status |->
        [transcription_status[t] EXCEPT ![field] = value]]
\* transcription_status[task_id][field] = value
SetField(field, value) ==
    [transcription_status EXCEPT ![task_id] = [@ EXCEPT ![field] = value]]
Rec == transcription_status[task_id]
\* the entry start_transcription creates
StartingRecord ==
    [audio_duration |-> -1, status |-> St("starting"), progress |-> Whole(0),
     error |-> "", language |-> ""]
HasTask == task_id \in DOMAIN transcription_status

-----------------------------------------------------------------------------
(* get_episodes_from_rss *)

\* A feed is a parse outcome and, per entry, whether it has an audio enclosure.
FeedEntries == UNION {[1..n -> BOOLEAN] : n \in 0..MaxEntries}
Feeds == [raises : BOOLEAN, entries : FeedEntries]
\* int(request.form.get('episode_index')): any integer, a negative one included
EpisodeIndices == (0 - 1)..MaxEntries

\* the indices of the entries that have an audio enclosure, in feed order
RECURSIVE AudioEpisodes(_, _)
AudioEpisodes(entries, j) ==
    IF j > Len(entries) THEN <<>>
    ELSE (IF entries[j] THEN <<j - 1>> ELSE <<>>) \o AudioEpisodes(entries, j + 1)

\* every entry listed, with or without an audio enclosure
get_episodes_from_rssMutant(feed) ==
    IF feed.raises THEN [error |-> "Error parsing RSS feed", episodes |-> <<>>]
    ELSE IF Len(feed.entries) = 0
         THEN [error |-> "No episodes found in RSS feed", episodes |-> <<>>]
         ELSE [error |-> "",
               episodes |-> [j \in 1..Len(feed.entries) |-> j - 1]]

get_episodes_from_rss(feed) ==
    IF feed.raises THEN [error |-> "Error parsing RSS feed", episodes |-> <<>>]
    ELSE IF Len(feed.entries) = 0
         THEN [error |-> "No episodes found in RSS feed", episodes |-> <<>>]
         ELSE [error |-> "", episodes |-> AudioEpisodes(feed.entries, 1)]

-----------------------------------------------------------------------------
(* split_audio_if_needed: the pure parts *)

\* file_size_mb <= max_size_mb is the no-op path
NeedsSplitMutant(size_mb) == size_mb >= max_size_mb
NeedsSplit(size_mb) == size_mb > max_size_mb

\* num_chunks = int((file_size_mb / max_size_mb) + 1)
NumChunksMutant(size_mb) == (size_mb + max_size_mb - 1) \div max_size_mb
NumChunks(size_mb) == (size_mb \div max_size_mb) + 1

Min(a, b) == IF a <= b THEN a ELSE b

ChunkDurationMs(total, n) == total \div n
ChunkStart(idx, total, n) == idx * ChunkDurationMs(total, n)
ChunkEnd(idx, total, n) == Min((idx + 1) * ChunkDurationMs(total, n), total)

\* for i in range(num_chunks) is exhausted after idx iterations
ExportDoneMutant(idx, n) == idx >= n - 1
ExportDone(idx, n) == idx = n

\* where the worker continues after the except branch: back in
\* transcribe_audio_openai, at the line after the call
SplitExceptPcMutant == "L273"
SplitExceptPc == "L159"

-----------------------------------------------------------------------------
(* get_audio_duration and the stitching arithmetic *)

\* Fallback: 1MB ~ 1 minute of audio
EstimatedDurationMs(size_mb) == size_mb * 60000

\* time_offset = i * (audio_duration / len(audio_chunks))
TimeOffsetMutant(idx, duration, n) == (idx + 1) * (duration \div n)
TimeOffset(idx, duration, n) == idx * (duration \div n)

Segment(start, end, text) == [start |-> start, end |-> end, text |-> text]

RECURSIVE Adjusted(_, _)
Adjusted(segments, offset) ==
    IF segments = <<>> THEN <<>>
    ELSE <<Segment(Head(segments).start + offset, Head(segments).end + offset,
                   Head(segments).text)>> \o Adjusted(Tail(segments), offset)

\* What the backend can answer for a chunk whose audio lasts dur ms: a text
\* and segments with chunk-local times inside [0, dur].
BackendResults(dur) ==
    { [text |-> <<" ", "a">>, segments |-> <<>>],
      [text |-> <<"b", " ", "c">>,
       segments |-> <<Segment(0, dur \div 2, <<"b", " ">>),
                      Segment(dur \div 2, dur, <<"c">>)>>] }

\* where the worker continues when the backend call raises
BackendFailurePcMutant == "L217"
BackendFailureEscapes == "uncaught"
BackendFailurePc == "L273"

\* where the worker continues when writing an output file raises
WriteFailurePcMutant == "L255"
WriteFailurePc == "L273"

-----------------------------------------------------------------------------
(* The output formatter: str.strip, format_timestamp, the subtitle records *)

Whitespace == {" ", "\n", "\t"}

RECURSIVE LStrip(_)
LStrip(str) ==
    IF str # <<>> /\ Head(str) \in Whitespace THEN LStrip(Tail(str)) ELSE str

RECURSIVE RStrip(_)
RStrip(str) ==
    IF str # <<>> /\ str[Len(str)] \in Whitespace
    THEN RStrip(SubSeq(str, 1, Len(str) - 1)) ELSE str

\* str.strip()
Strip(str) == RStrip(LStrip(str))

\* full_text += chunk_transcript.text + " "
AppendTextMutant(text, chunk_text) == text \o chunk_text
AppendText(text, chunk_text) == text \o chunk_text \o <<" ">>

DigitChar(d) == <<"0", "1", "2", "3", "4", "5", "6", "7", "8", "9">>[d + 1]

\* f"{n}"
RECURSIVE Decimal(_)
Decimal(n) ==
    IF n < 10 THEN <<DigitChar(n)>>
    ELSE Decimal(n \div 10) \o <<DigitChar(n % 10)>>

\* f"{n:0<width>d}"
RECURSIVE Pad(_, _)
Pad(n, width) ==
    IF Len(Decimal(n)) >= width THEN Decimal(n)
    ELSE <<"0">> \o Pad(n, width - 1)

RECURSIVE Pow2(_)
Pow2(n) == IF n = 0 THEN 1 ELSE 2 * Pow2(n - 1)

RECURSIVE Pow2Mod(_, _)
Pow2Mod(n, m) == IF n = 0 THEN 1 % m ELSE (2 * Pow2Mod(n - 1, m)) % m

RECURSIVE FloorLog2(_)
FloorLog2(x) == IF x < 2 THEN 0 ELSE 1 + FloorLog2(x \div 2)

\* the k with 2^(-k) <= x/1000 < 2^(-k+1), for 0 < x < 1000
RECURSIVE BelowOneExponent(_, _)
BelowOneExponent(x, k) ==
    IF x * Pow2(k) >= 1000 THEN k ELSE BelowOneExponent(x, k + 1)

\* floor(log2(t / 1000)) for t > 0: the binary exponent of the float seconds
SecondsExponent(t) ==
    IF t >= 1000 THEN FloorLog2(t \div 1000) ELSE 0 - BelowOneExponent(t, 1)

\* int((seconds % 1) * 1000), where seconds is the IEEE double nearest to
\* t/1000.  With m = t mod 1000, e the exponent of seconds and u = 2^(e-52)
\* its unit in the last place, the double lies q*u/1000 below t/1000 when
\* q = t * 2^(52-e) mod 1000 is in 1..499 (above it when q > 500, on it when
\* q = 0).  seconds % 1 is exact, so the product is the double nearest to
\* m - q*u; it is below m, and int() gives m - 1, exactly when q*u exceeds
\* half the distance from m to the double before it, which is 2^(fm-52) for
\* fm = floor(log2 m) (half of that when m is a power of two).
DoubleMillis(t) ==
    LET m == t % 1000
        e == SecondsExponent(t)
        q == (m * Pow2Mod(52 - e, 1000)) % 1000
        fm == FloorLog2(m)
        r == (IF Pow2(fm) = m THEN fm - 2 ELSE fm - 1) - e
    IN IF m = 0 \/ q = 0 \/ q > 500 THEN m
       ELSE IF r < 0 \/ (r < 9 /\ q > Pow2(r)) THEN m - 1
       ELSE m

\* format_timestamp(seconds) for seconds = t / 1000 (app.py:276-282)
format_timestamp(t) ==
    Pad(t \div 3600000, 2) \o <<":">> \o Pad((t \div 60000) % 60, 2) \o <<":">>
    \o Pad((t \div 1000) % 60, 2) \o <<",">> \o Pad(DoubleMillis(t), 3)

Arrow == <<" ", "-", "-", ">", " ">>

\* the literal "00:00:00,000 --> 00:00:01,000\n" of app.py:252
FallbackTimeLine ==
    <<"0", "0", ":", "0", "0", ":", "0", "0", ",", "0", "0", "0",
      " ", "-", "-", ">", " ",
      "0", "0", ":", "0", "0", ":", "0", "1", ",", "0", "0", "0", "\n">>

\* enumerate(transcript.segments, 1): the index of the j-th segment
SrtIndexMutant(j) == j - 1
SrtIndex(j) == j

\* the three writes of one record (app.py:246-248)
SrtRecord(j, segment) ==
    << Decimal(SrtIndex(j)) \o <<"\n">>,
       format_timestamp(segment.start) \o Arrow
           \o format_timestamp(segment.end) \o <<"\n">>,
       Strip(segment.text) \o <<"\n", "\n">> >>

RECURSIVE SrtRecords(_, _)
SrtRecords(segments, j) ==
    IF j > Len(segments) THEN <<>>
    ELSE SrtRecord(j, segments[j]) \o SrtRecords(segments, j + 1)

\* the loop alone, as podcast_transcriber.py:82-87 writes the file
SrtWritesLoopOnly(text, segments) == SrtRecords(segments, 1)
\* everything written to the subtitle file (app.py:241-253); text is
\* transcript.text, already stripped
SrtWrites(text, segments) ==
    IF segments # <<>> THEN SrtRecords(segments, 1)
    ELSE << <<"1", "\n">>, FallbackTimeLine, text >>

\* open(name, 'w') and the writes: what the file holds afterwards
WriteFileMutant(old, written) == old \o written
WriteFile(old, written) == written

\* transcripts handed to the writer: a text and up to two segments
NoTranscript == [text |-> <<>>, segments |-> <<>>]
RenderTexts == {<<>>, <<"a">>, <<"b", " ", "c">>}
RenderSegments == {Segment(0, 1001, <<"b", " ">>),
                   Segment(1001, 2300, <<" ", "c">>),
                   Segment(2300, 3725400, <<"a">>)}
Transcripts ==
    [text : RenderTexts,
     segments : {<<>>} \cup {<<x>> : x \in RenderSegments}
                \cup {<<x, y>> : x, y \in RenderSegments}]

-----------------------------------------------------------------------------
(* Initial state: nothing submitted yet *)

InitPipeline ==
    /\ pc = "idle"
    /\ http_response = "none"
    /\ transcription_status = NoDict
    /\ transcription_results = NoDict
    /\ client_configured \in BOOLEAN
    /\ files = NoFiles
    /\ txt_file = "absent"
    /\ srt_file = "absent"
    /\ txt_content = <<>>
    /\ srt_content = <<>>
    /\ fmt_output = <<>>
    /\ renders = <<>>
    /\ num_chunks = 0
    /\ total_duration_ms = 0
    /\ chunk_files = <<>>
    /\ chunk_ranges = <<>>
    /\ split_failed = FALSE
    /\ audio_chunks = <<>>
    /\ audio_duration = 0
    /\ duration_measured = FALSE
    /\ i = 0
    /\ all_segments = <<>>
    /\ full_text = <<>>
    /\ exc = ""
    /\ backend_calls = <<>>
    /\ backend_returned = <<>>
    /\ status_hist = <<>>
    /\ downloaded_size_mb = 0
    /\ feed_has_audio = FALSE
    /\ feed_without_audio = FALSE
    /\ snapshot = NoSnapshot

Init ==
    /\ InitPipeline
    /\ fmt_input = 0
    /\ render_transcript = NoTranscript

\* groups of variables an action leaves alone
splitVars == <<num_chunks, total_duration_ms, chunk_files, chunk_ranges, split_failed>>
loopVars == <<all_segments, full_text, backend_calls, backend_returned>>
renderVars == <<render_transcript, renders>>
fmtVars == <<fmt_input, fmt_output, renderVars>>
outVars == <<txt_file, srt_file, txt_content, srt_content,
             transcription_results>>
logVars == <<downloaded_size_mb, feed_has_audio, feed_without_audio>>
envVars == <<http_response, client_configured, snapshot, duration_measured,
             logVars, fmtVars>>

\* a step that only writes one field of the task's status record
WriteStatus(from, value, to) ==
    /\ pc = from
    /\ transcription_status' = SetField("status", value)
    /\ status_hist' = Append(status_hist, value)
    /\ pc' = to
    /\ UNCHANGED <<files, audio_chunks, audio_duration, i, exc,
                   splitVars, loopVars, outVars, envVars>>

WriteProgress(from, value, to) ==
    /\ pc = from
    /\ transcription_status' = SetField("progress", value)
    /\ pc' = to
    /\ UNCHANGED <<files, audio_chunks, audio_duration, i, exc, status_hist,
                   splitVars, loopVars, outVars, envVars>>

-----------------------------------------------------------------------------
(* start_transcription (app.py:344-393) *)

start_transcription ==
    /\ pc = "idle"
    /\ \E feed \in Feeds, episode_index \in EpisodeIndices :
        LET got == get_episodes_from_rss(feed) IN
        /\ feed_has_audio' = (~feed.raises /\ \E j \in 1..Len(feed.entries) :
                                                  feed.entries[j])
        /\ feed_without_audio' = (/\ ~feed.raises
                                  /\ Len(feed.entries) >= 1
                                  /\ \A j \in 1..Len(feed.entries) :
                                         ~feed.entries[j])
        /\ IF got.error # "" \/ episode_index >= Len(got.episodes)
           THEN /\ http_response' = "400"
                /\ pc' = "rejected"
                /\ UNCHANGED <<transcription_status, status_hist>>
           ELSE IF episode_index < 0 - Len(got.episodes)
           THEN \* episodes[episode_index] raises IndexError
                /\ http_response' = "500"
                /\ pc' = "rejected"
                /\ UNCHANGED <<transcription_status, status_hist>>
           ELSE /\ transcription_status' =
                       [t \in DOMAIN transcription_status \cup {task_id} |->
                           IF t = task_id THEN StartingRecord
                           ELSE transcription_status[t]]
                /\ status_hist' = <<St("starting")>>
                /\ http_response' = "task_id"
                /\ pc' = "L379"
    /\ UNCHANGED <<files, audio_chunks, audio_duration, i, exc, splitVars,
                   loopVars, outVars, client_configured, snapshot,
                   duration_measured, downloaded_size_mb, fmtVars>>

-----------------------------------------------------------------------------
(* transcribe_thread (app.py:376-387) and download_audio (app.py:42-69) *)

thread_status_downloading == WriteStatus("L379", St("downloading"), "L380")

\* the download returns: the asset is on disk, of some size and duration
download_ok ==
    /\ pc = "L380"
    /\ \E size \in Sizes, dur \in Durations :
        /\ files' = Create(files, Orig, size, dur)
        /\ downloaded_size_mb' = size
    /\ pc' = "L145"
    /\ UNCHANGED <<transcription_status, audio_chunks, audio_duration, i, exc,
                   status_hist, splitVars, loopVars, outVars, http_response,
                   client_configured, snapshot, duration_measured,
                   feed_has_audio, feed_without_audio, fmtVars>>

\* requests.get / raise_for_status / the stream raises, before or after the
\* file was opened for writing
download_raises ==
    /\ pc = "L380"
    /\ \/ files' = files
       \/ \E size \in {1}, dur \in {0} : files' = Create(files, Orig, size, dur)
    /\ exc' = "download failed"
    /\ pc' = "L386"
    /\ UNCHANGED <<transcription_status, audio_chunks, audio_duration, i,
                   status_hist, splitVars, loopVars, outVars, envVars>>

thread_status_error == WriteStatus("L386", St("error"), "L387")

thread_error_message ==
    /\ pc = "L387"
    /\ transcription_status' = SetField("error", exc)
    /\ pc' = "done"
    /\ UNCHANGED <<files, audio_chunks, audio_duration, i, exc, status_hist,
                   splitVars, loopVars, outVars, envVars>>

-----------------------------------------------------------------------------
(* transcribe_audio_openai, up to the split (app.py:142-156) *)

check_client ==
    /\ pc = "L145"
    /\ IF client_configured
       THEN /\ pc' = "L150"
            /\ exc' = exc
       ELSE /\ pc' = "L273"
            /\ exc' = "OpenAI API key not configured"
    /\ UNCHANGED <<transcription_status, files, audio_chunks, audio_duration, i,
                   status_hist, splitVars, loopVars, outVars, envVars>>

status_splitting == WriteStatus("L150", St("splitting"), "L151")
progress_splitting == WriteProgress("L151", Whole(5), "L154")

-----------------------------------------------------------------------------
(* split_audio_if_needed (app.py:84-140) *)

\* lines 86-96: the size test and the chunk count
split_check_size ==
    /\ pc = "L154"
    /\ IF NeedsSplit(files[Orig].size_mb)
       THEN /\ num_chunks' = NumChunks(files[Orig].size_mb)
            /\ pc' = "L102"
            /\ UNCHANGED audio_chunks
       ELSE /\ audio_chunks' = <<Orig>>
            /\ pc' = "L159"
            /\ UNCHANGED num_chunks
    /\ UNCHANGED <<transcription_status, files, audio_duration, i, exc,
                   status_hist, total_duration_ms, chunk_files, chunk_ranges,
                   split_failed, loopVars, outVars, envVars>>

\* lines 102-113: AudioSegment.from_file decodes the asset
split_load_ok ==
    /\ pc = "L102"
    /\ total_duration_ms' = files[Orig].duration_ms
    /\ chunk_files' = <<>>
    /\ i' = 0
    /\ pc' = "L115"
    /\ UNCHANGED <<transcription_status, files, audio_chunks, audio_duration, exc,
                   status_hist, num_chunks, chunk_ranges, split_failed,
                   loopVars, outVars, envVars>>

split_load_raises ==
    /\ pc = "L102"
    /\ pc' = "L137"
    /\ UNCHANGED <<transcription_status, files, audio_chunks, audio_duration, i,
                   exc, status_hist, splitVars, loopVars, outVars, envVars>>

\* lines 115-129: one iteration of the export loop.  All chunks of one split
\* are rendered alike, so their files have one size, chosen at the first.
split_export_ok ==
    /\ pc = "L115"
    /\ ~ExportDone(i, num_chunks)
    /\ LET start_time == ChunkStart(i, total_duration_ms, num_chunks)
           end_time == ChunkEnd(i, total_duration_ms, num_chunks)
       IN /\ \E size \in (IF i = 0 THEN ChunkSizes ELSE {files[1].size_mb}) :
                files' = Create(files, i + 1, size, end_time - start_time)
          /\ chunk_ranges' = Append(chunk_ranges,
                                    [start |-> start_time, end |-> end_time])
    /\ chunk_files' = Append(chunk_files, i + 1)
    /\ i' = i + 1
    /\ pc' = "L115"
    /\ UNCHANGED <<transcription_status, audio_chunks, audio_duration, exc,
                   status_hist, num_chunks, total_duration_ms, split_failed,
                   loopVars, outVars, envVars>>

\* chunk.export raises; the chunk file may have been created already
split_export_raises ==
    /\ pc = "L115"
    /\ ~ExportDone(i, num_chunks)
    /\ \/ files' = files
       \/ files' = Create(files, i + 1, 1, 0)
    /\ pc' = "L137"
    /\ UNCHANGED <<transcription_status, audio_chunks, audio_duration, i, exc,
                   status_hist, splitVars, loopVars, outVars, envVars>>

\* lines 131-135: os.remove(audio_file); return chunk_files
split_remove_original_ok ==
    /\ pc = "L115"
    /\ ExportDone(i, num_chunks)
    /\ files' = Remove(files, Orig)
    /\ audio_chunks' = chunk_files
    /\ pc' = "L159"
    /\ UNCHANGED <<transcription_status, audio_duration, i, exc, status_hist,
                   splitVars, loopVars, outVars, envVars>>

split_remove_original_raises ==
    /\ pc = "L115"
    /\ ExportDone(i, num_chunks)
    /\ pc' = "L137"
    /\ UNCHANGED <<transcription_status, files, audio_chunks, audio_duration, i,
                   exc, status_hist, splitVars, loopVars, outVars, envVars>>

\* lines 137-140: except Exception: return [audio_file]
split_except ==
    /\ pc = "L137"
    /\ split_failed' = TRUE
    /\ audio_chunks' = <<Orig>>
    /\ pc' = SplitExceptPc
    /\ UNCHANGED <<transcription_status, files, audio_duration, i, exc,
                   status_hist, num_chunks, total_duration_ms, chunk_files,
                   chunk_ranges, loopVars, outVars, envVars>>

-----------------------------------------------------------------------------
(* transcribe_audio_openai, duration estimate (app.py:158-170) *)

\* get_audio_duration (app.py:71-81): librosa measures the file, or the
\* except branch estimates from its size
get_audio_duration ==
    /\ pc = "L159"
    /\ \E measured \in BOOLEAN :
        LET first == files[audio_chunks[1]]
            duration == IF measured THEN first.duration_ms
                        ELSE EstimatedDurationMs(first.size_mb)
        IN /\ audio_duration' = IF Len(audio_chunks) > 1
                                THEN duration * Len(audio_chunks)
                                ELSE duration
           /\ duration_measured' = measured
    /\ i' = 0
    /\ pc' = "L164"
    /\ UNCHANGED <<transcription_status, files, audio_chunks, exc, status_hist,
                   splitVars, loopVars, outVars, http_response,
                   client_configured, snapshot, logVars, fmtVars>>

status_audio_duration ==
    /\ pc = "L164"
    /\ transcription_status' = SetField("audio_duration", audio_duration)
    /\ pc' = "L168"
    /\ UNCHANGED <<files, audio_chunks, audio_duration, i, exc, status_hist,
                   splitVars, loopVars, outVars, envVars>>

status_transcribing == WriteStatus("L168", St("transcribing"), "L169")
progress_transcribing == WriteProgress("L169", Whole(10), "L183")

-----------------------------------------------------------------------------
(* transcribe_audio_openai, the chunk loop (app.py:178-217) *)

NChunks == Len(audio_chunks)

\* for i, chunk_file in enumerate(audio_chunks): the index after idx
NextChunkMutant(idx) == idx + 2
NextChunk(idx) == idx + 1

progress_chunk ==
    /\ i < NChunks
    /\ WriteProgress("L183", ChunkProgress(i, NChunks), "L184")

status_chunk ==
    /\ i < NChunks
    /\ WriteStatus("L184", ChunkStatus(i, NChunks), "L191")

\* lines 186-197: the chunk file is opened and the request is sent
backend_call_start ==
    /\ pc = "L191"
    /\ backend_calls' = Append(backend_calls, i)
    /\ pc' = "L192"
    /\ UNCHANGED <<transcription_status, files, audio_chunks, audio_duration, i,
                   exc, status_hist, splitVars, all_segments, full_text,
                   backend_returned, outVars, envVars>>

\* lines 191-214: the backend answers; text and shifted segments are merged
backend_call_ok ==
    /\ pc = "L192"
    /\ \E r \in BackendResults(files[audio_chunks[i + 1]].duration_ms) :
        /\ backend_returned' = Append(backend_returned, r)
        /\ full_text' = AppendText(full_text, r.text)
        /\ all_segments' =
               IF r.segments # <<>>
               THEN all_segments \o
                    Adjusted(r.segments, TimeOffset(i, audio_duration, NChunks))
               ELSE all_segments
    /\ pc' = "L217"
    /\ UNCHANGED <<transcription_status, files, audio_chunks, audio_duration, i,
                   exc, status_hist, splitVars, backend_calls, outVars,
                   envVars>>

\* client.audio.transcriptions.create raises
backend_call_raises ==
    /\ pc = "L192"
    /\ exc' = "backend failed"
    /\ pc' = BackendFailurePc
    /\ UNCHANGED <<transcription_status, files, audio_chunks, audio_duration, i,
                   status_hist, splitVars, loopVars, outVars, envVars>>

\* line 217: os.remove(chunk_file), then the next iteration or the loop's end
remove_chunk_ok ==
    /\ pc = "L217"
    /\ files' = Remove(files, audio_chunks[i + 1])
    /\ i' = NextChunk(i)
    /\ pc' = IF NextChunk(i) < NChunks THEN "L183" ELSE "L229"
    /\ UNCHANGED <<transcription_status, audio_chunks, audio_duration, exc,
                   status_hist, splitVars, loopVars, outVars, envVars>>

remove_chunk_raises ==
    /\ pc = "L217"
    /\ exc' = "remove failed"
    /\ pc' = "L273"
    /\ UNCHANGED <<transcription_status, files, audio_chunks, audio_duration, i,
                   status_hist, splitVars, loopVars, outVars, envVars>>

-----------------------------------------------------------------------------
(* transcribe_audio_openai, output and completion (app.py:219-274) *)

status_processing == WriteStatus("L229", St("processing"), "L230")
progress_processing == WriteProgress("L230", ProcessingProgress, "L231")

status_language ==
    /\ pc = "L231"
    /\ transcription_status' = SetField("language", "no")
    /\ pc' = "L235"
    /\ UNCHANGED <<files, audio_chunks, audio_duration, i, exc, status_hist,
                   splitVars, loopVars, outVars, envVars>>

write_txt_ok ==
    /\ pc = "L235"
    /\ txt_file' = "written"
    /\ txt_content' = WriteFile(txt_content, Strip(full_text))
    /\ pc' = "L238"
    /\ UNCHANGED <<transcription_status, files, audio_chunks, audio_duration, i,
                   exc, status_hist, splitVars, loopVars, srt_file,
                   srt_content, transcription_results, envVars>>

\* open() or write() raises: no file, or a file that is not complete
write_txt_raises ==
    /\ pc = "L235"
    /\ txt_file' \in {"absent", "partial"}
    /\ exc' = "write failed"
    /\ pc' = WriteFailurePc
    /\ UNCHANGED <<transcription_status, files, audio_chunks, audio_duration, i,
                   status_hist, splitVars, loopVars, srt_file, txt_content,
                   srt_content, transcription_results, envVars>>

progress_txt_written == WriteProgress("L238", Whole(75), "L241")

write_srt_ok ==
    /\ pc = "L241"
    /\ srt_file' = "written"
    /\ srt_content' = WriteFile(srt_content,
                                SrtWrites(Strip(full_text), all_segments))
    /\ pc' = "L255"
    /\ UNCHANGED <<transcription_status, files, audio_chunks, audio_duration, i,
                   exc, status_hist, splitVars, loopVars, txt_file,
                   txt_content, transcription_results, envVars>>

write_srt_raises ==
    /\ pc = "L241"
    /\ srt_file' \in {"absent", "partial"}
    /\ exc' = "write failed"
    /\ pc' = WriteFailurePc
    /\ UNCHANGED <<transcription_status, files, audio_chunks, audio_duration, i,
                   status_hist, splitVars, loopVars, txt_file, txt_content,
                   srt_content, transcription_results, envVars>>

status_completed == WriteStatus("L255", St("completed"), "L256")
progress_completed == WriteProgress("L256", Whole(100), "L259")

\* lines 259-266: transcription_results[task_id] = {...}
store_results ==
    /\ pc = "L259"
    /\ transcription_results' =
           [t \in DOMAIN transcription_results \cup {task_id} |->
               IF t = task_id THEN [txt_file |-> "txt", srt_file |-> "srt"]
               ELSE transcription_results[t]]
    /\ pc' = "L269"
    /\ UNCHANGED <<transcription_status, files, audio_chunks, audio_duration, i,
                   exc, status_hist, splitVars, loopVars, txt_file, srt_file,
                   txt_content, srt_content, envVars>>

\* lines 269-270: if os.path.exists(audio_file): os.remove(audio_file),
\* which returns or raises
final_cleanup ==
    /\ pc = "L269"
    /\ IF Exists(Orig)
       THEN \/ /\ files' = Remove(files, Orig)
               /\ pc' = "done"
               /\ exc' = exc
            \/ /\ files' = files
               /\ pc' = "L273"
               /\ exc' = "remove failed"
       ELSE /\ files' = files
            /\ pc' = "done"
            /\ exc' = exc
    /\ UNCHANGED <<transcription_status, audio_chunks, audio_duration, i,
                   status_hist, splitVars, loopVars, outVars, envVars>>

\* lines 272-274: except Exception as e
status_error == WriteStatus("L273", St("error"), "L274")

error_message ==
    /\ pc = "L274"
    /\ transcription_status' = SetField("error", exc)
    /\ pc' = "done"
    /\ UNCHANGED <<files, audio_chunks, audio_duration, i, exc, status_hist,
                   splitVars, loopVars, outVars, envVars>>

-----------------------------------------------------------------------------
(* get_status (app.py:395-414): the polling read path *)

get_status ==
    /\ HasTask
    /\ LET links == Rec.status = St("completed")
                    /\ task_id \in DOMAIN transcription_results
       IN snapshot' = [present |-> TRUE, status |-> Rec.status,
                       progress |-> Rec.progress, error |-> Rec.error,
                       download_txt |-> links, download_srt |-> links]
    /\ UNCHANGED <<pc, http_response, transcription_status,
                   transcription_results, client_configured, files, txt_file,
                   srt_file, txt_content, srt_content, audio_chunks,
                   audio_duration, duration_measured, i, exc, status_hist,
                   splitVars, loopVars, logVars, fmtVars>>

-----------------------------------------------------------------------------
(* Specifications *)

Worker ==
    \/ start_transcription
    \/ thread_status_downloading
    \/ download_ok
    \/ download_raises
    \/ thread_status_error
    \/ thread_error_message
    \/ check_client
    \/ status_splitting
    \/ progress_splitting
    \/ split_check_size
    \/ split_load_ok
    \/ split_load_raises
    \/ split_export_ok
    \/ split_export_raises
    \/ split_remove_original_ok
    \/ split_remove_original_raises
    \/ split_except
    \/ get_audio_duration
    \/ status_audio_duration
    \/ status_transcribing
    \/ progress_transcribing
    \/ progress_chunk
    \/ status_chunk
    \/ backend_call_start
    \/ backend_call_ok
    \/ backend_call_raises
    \/ remove_chunk_ok
    \/ remove_chunk_raises
    \/ status_processing
    \/ progress_processing
    \/ status_language
    \/ write_txt_ok
    \/ write_txt_raises
    \/ progress_txt_written
    \/ write_srt_ok
    \/ write_srt_raises
    \/ status_completed
    \/ progress_completed
    \/ store_results
    \/ final_cleanup
    \/ status_error
    \/ error_message

\* the worker alone
Next == Worker
Spec == Init /\ [][Next]_vars

\* the worker under a scheduler that keeps running the thread, every
\* external call returning or raising
SpecFair == Init /\ [][Next]_vars /\ WF_vars(Next)

\* download_file (app.py:416-435): the answer to a request for the task's
\* text or subtitle file
download_file(file_type) ==
    IF task_id \notin DOMAIN transcription_results THEN "404"
    ELSE IF file_type \notin {"txt", "srt"} THEN "400"
    ELSE IF (IF file_type = "txt" THEN txt_file ELSE srt_file) = "absent"
         THEN "404"
    ELSE "file"

\* format_timestamp alone, applied to one timestamp
InitFormat ==
    /\ InitPipeline
    /\ fmt_input \in TimestampInputs
    /\ render_transcript = NoTranscript

format_call ==
    /\ fmt_output = <<>>
    /\ fmt_output' = format_timestamp(fmt_input)
    /\ UNCHANGED <<pc, transcription_status, files, audio_chunks,
                   audio_duration, i, exc, status_hist, splitVars, loopVars,
                   outVars, http_response, client_configured, snapshot,
                   duration_measured, logVars, fmt_input, renderVars>>

NextFormat == format_call
SpecFormat == InitFormat /\ [][NextFormat]_vars

\* the output writer alone (app.py:234-253), applied to one transcript
\* several times, each time to the same two file names
InitRender ==
    /\ InitPipeline
    /\ fmt_input = 0
    /\ render_transcript \in Transcripts

render_files ==
    /\ Len(renders) < MaxRenders
    /\ txt_content' = WriteFile(txt_content, render_transcript.text)
    /\ srt_content' = WriteFile(srt_content,
                                SrtWrites(render_transcript.text,
                                          render_transcript.segments))
    /\ renders' = Append(renders, [txt |-> txt_content', srt |-> srt_content'])
    /\ UNCHANGED <<pc, transcription_status, transcription_results, files,
                   audio_chunks, audio_duration, i, exc, status_hist,
                   splitVars, loopVars, txt_file, srt_file, http_response,
                   client_configured, snapshot, duration_measured, logVars,
                   fmt_input, fmt_output, render_transcript>>

NextRender == render_files
SpecRender == InitRender /\ [][NextRender]_vars

\* A second request and its worker, reduced to what they do to the two
\* stores: the same writes, made with the other task id.
localVars == <<pc, files, audio_chunks, audio_duration, i, exc, status_hist,
               splitVars, loopVars, txt_file, srt_file, txt_content,
               srt_content, envVars>>

OtherRec == transcription_status[other_task_id]
HasOther == other_task_id \in DOMAIN transcription_status

other_start_transcription ==
    /\ ~HasOther
    /\ transcription_status' =
           [t \in DOMAIN transcription_status \cup {other_task_id} |->
               IF t = other_task_id THEN StartingRecord
               ELSE transcription_status[t]]
    /\ UNCHANGED <<transcription_results, localVars>>

other_write_status ==
    /\ HasOther
    /\ \E step \in {<<"starting", "downloading">>,
                     <<"downloading", "completed">>} :
        /\ OtherRec.status = St(step[1])
        /\ transcription_status' =
               [transcription_status EXCEPT
                    ![other_task_id] = [@ EXCEPT !.status = St(step[2])]]
    /\ UNCHANGED <<transcription_results, localVars>>

other_store_results ==
    /\ HasOther
    /\ OtherRec.status = St("completed")
    /\ other_task_id \notin DOMAIN transcription_results
    /\ transcription_results' =
           [t \in DOMAIN transcription_results \cup {other_task_id} |->
               IF t = other_task_id THEN [txt_file |-> "txt", srt_file |-> "srt"]
               ELSE transcription_results[t]]
    /\ UNCHANGED <<transcription_status, localVars>>

OtherWorker ==
    \/ other_start_transcription
    \/ other_write_status
    \/ other_store_results

NextTwo == Worker \/ OtherWorker
SpecTwo == Init /\ [][NextTwo]_vars

\* the worker and a client polling at any moment
NextPolled == Worker \/ get_status
SpecPolled == Init /\ [][NextPolled]_vars

-----------------------------------------------------------------------------
(* Helpers of the properties *)

Last(seq) == seq[Len(seq)]
Front(seq) == SubSeq(seq, 1, Len(seq) - 1)
Range(seq) == {seq[j] : j \in 1..Len(seq)}
IsPrefix(h, e) == Len(h) <= Len(e) /\ h = SubSeq(e, 1, Len(h))

\* the stages of a task that splits into n chunks, in the order of the spec
ExpectedStages(n) ==
    <<St("starting"), St("downloading"), St("splitting"), St("transcribing")>>
    \o [k \in 1..n |-> [name |-> "transcribing chunk", k |-> k, n |-> n]]
    \o <<St("processing"), St("completed")>>

\* the stages written so far, without a final 'error'
StagesWritten ==
    IF status_hist # <<>> /\ Last(status_hist) = St("error")
    THEN Front(status_hist) ELSE status_hist

ChunkCount == IF audio_chunks = <<>> THEN 1 ELSE NChunks

\* C1: the status written is always the next stage of starting, downloading,
\* splitting, transcribing, transcribing chunk 1/N .. N/N, processing,
\* completed (or 'error', which ends the run): the stages written are a
\* prefix of that list, so none is skipped and none returns; a completed task
\* has visited all of them.
C1_StagesInOrder ==
    HasTask =>
        /\ Rec.status = Last(status_hist)
        /\ IsPrefix(StagesWritten, ExpectedStages(ChunkCount))
        /\ (Rec.status = St("completed") =>
                status_hist = ExpectedStages(ChunkCount))

C1_Witness ==
    /\ HasTask
    /\ Rec.status = St("completed")
    /\ NChunks >= 3

\* C2: once the status is 'completed' or 'error', no step changes the
\* status, progress or error field of the task's record.
C2_TerminalIsFinal ==
    [][(HasTask /\ Rec.status.name \in {"completed", "error"}) =>
          /\ transcription_status'[task_id].status = Rec.status
          /\ transcription_status'[task_id].progress = Rec.progress
          /\ transcription_status'[task_id].error = Rec.error]_vars

\* C3: every write to 'progress' writes a value at least as large as the
\* one it replaces.
C3_ProgressMonotone ==
    [][(HasTask /\ task_id \in DOMAIN transcription_status') =>
          FracLeq(Rec.progress, transcription_status'[task_id].progress)]_vars

\* C4: after a successful split the chunk ranges start at 0, are ordered and
\* contiguous, and the last one ends at total_duration_ms.
C4_RangesCoverAsset ==
    (pc = "L159" /\ ~split_failed /\ Len(audio_chunks) > 1) =>
        /\ Len(chunk_ranges) = num_chunks
        /\ chunk_ranges[1].start = 0
        /\ \A j \in 1..Len(chunk_ranges) :
              chunk_ranges[j].start <= chunk_ranges[j].end
        /\ \A j \in 1..(Len(chunk_ranges) - 1) :
              chunk_ranges[j].end = chunk_ranges[j + 1].start
        /\ Last(chunk_ranges).end = total_duration_ms

\* C5: the start times of all_segments are non-decreasing over the whole
\* merged sequence (the backend's segments are in order and inside the real
\* duration of their chunk).
C5_MergedStartsOrdered ==
    \A j \in 1..(Len(all_segments) - 1) :
        all_segments[j].start <= all_segments[j + 1].start

\* C6: a response of get_status is non-terminal, or 'completed' with both
\* download links to fully written files, or 'error' with a message.
C6_SnapshotConsistent ==
    snapshot.present =>
        /\ (snapshot.status = St("completed") =>
                /\ snapshot.download_txt /\ snapshot.download_srt
                /\ txt_file = "written" /\ srt_file = "written")
        /\ (snapshot.status = St("error") => snapshot.error # "")

\* C7: when the split of an oversized asset fails, split_audio_if_needed
\* returns [audio_file] with the asset still on disk and the worker goes on to
\* the transcribing stage; the failure itself is never the task's error.
C7_SplitFailureDegrades ==
    split_failed =>
        /\ audio_chunks = <<Orig>>
        /\ (pc \in {"L159", "L164", "L168"} =>
                /\ Exists(Orig)
                /\ Rec.status = St("splitting")
                /\ exc = "")
        /\ (pc \notin {"L159", "L164", "L168"} =>
                St("transcribing") \in Range(status_hist))

C7_Witness ==
    /\ split_failed
    /\ chunk_files # <<>>
    /\ Rec.status = ChunkStatus(0, 1)

\* C8: after the backend call for chunk i raised, the worker only writes the
\* error: the backend has been called once for each of the chunks 0..i and
\* never again, 'processing' and 'completed' are never written, no results
\* entry exists, and the task ends with status 'error' and the message.
C8_BackendFailureIsTerminal ==
    exc = "backend failed" =>
        /\ pc \in {"L273", "L274", "done"}
        /\ backend_calls = [j \in 1..(i + 1) |-> j - 1]
        /\ St("processing") \notin Range(status_hist)
        /\ St("completed") \notin Range(status_hist)
        /\ task_id \notin DOMAIN transcription_results
        /\ (pc = "done" =>
                Rec.status = St("error") /\ Rec.error = "backend failed")

C8_Witness ==
    /\ exc = "backend failed"
    /\ pc = "done"
    /\ i = 1
    /\ NChunks >= 3

\* the merged segments the claim's formula gives for the chunks 0..n-1
RECURSIVE C9_Expected(_)
C9_Expected(n) ==
    IF n = 0 THEN <<>>
    ELSE LET segs == backend_returned[n].segments
             d == audio_duration \div NChunks
         IN C9_Expected(n - 1) \o
            [j \in 1..Len(segs) |->
                [start |-> segs[j].start + (n - 1) * d,
                 end |-> segs[j].end + (n - 1) * d,
                 text |-> segs[j].text]]

\* C9: all_segments is, chunk after chunk and in the backend's order, every
\* returned segment shifted by i * d, where d = audio_duration / N.
C9_SegmentsShifted ==
    all_segments = C9_Expected(Len(backend_returned))

C9_Witness ==
    /\ NChunks = 3
    /\ Len(backend_returned) = 3
    /\ \A j \in 1..3 : backend_returned[j].segments # <<>>
    /\ all_segments[5].start = 2 * (audio_duration \div 3)

\* C10: for an asset of at most max_size_mb, split_audio_if_needed is one
\* step that returns [audio_file] and leaves every file as it was.
C10_SmallAssetUntouched ==
    [][(pc = "L154" /\ files[Orig].size_mb <= max_size_mb) =>
          /\ pc' = "L159"
          /\ audio_chunks' = <<Orig>>
          /\ files' = files
          /\ chunk_files' = <<>>]_vars

C10_Witness ==
    /\ pc = "L159"
    /\ ~split_failed
    /\ Exists(Orig)
    /\ files[Orig].size_mb = max_size_mb
    /\ audio_chunks = <<Orig>>
    /\ DOMAIN files = {Orig}

\* C11: a successful split of an asset larger than max_size_mb returns
\* floor(size / max_size_mb) + 1 chunks, exact multiples included.
C11_ChunkCount ==
    (pc = "L159" /\ ~split_failed /\ downloaded_size_mb > max_size_mb) =>
        /\ Len(audio_chunks) = (downloaded_size_mb \div max_size_mb) + 1
        /\ DOMAIN files = 1..Len(audio_chunks)
        /\ (downloaded_size_mb = 50 => Len(audio_chunks) = 3)

C11_Witness ==
    /\ pc = "L159"
    /\ ~split_failed
    /\ downloaded_size_mb = 2 * max_size_mb
    /\ Len(audio_chunks) = 3

\* C12: progress is 100 only while the status is 'completed'.
C12_FullProgressOnlyCompleted ==
    (HasTask /\ Rec.progress.num = 100 * Rec.progress.den) =>
        Rec.status = St("completed")

C12_Witness ==
    /\ HasTask
    /\ pc = "done"
    /\ Rec.progress = Whole(100)
    /\ Rec.status = St("completed")

\* C13: while chunk i (0-based) is announced and sent to the backend, the
\* files of the chunks before it are gone and its own file is on disk; the
\* file of a chunk is removed by the step that follows its successful call.
C13_ChunkFilesRemovedInTurn ==
    (pc \in {"L183", "L184", "L191", "L192", "L217"} /\ exc = "") =>
        /\ \A j \in 1..i : audio_chunks[j] \notin DOMAIN files
        /\ \A j \in (i + 1)..NChunks : audio_chunks[j] \in DOMAIN files
        /\ (pc = "L217" => Len(backend_returned) = i + 1)
        /\ (pc # "L217" => Len(backend_returned) = i)

C13_Witness ==
    /\ pc = "L191"
    /\ i = 2
    /\ NChunks >= 3
    /\ ~split_failed

Terminal == HasTask /\ Rec.status.name \in {"completed", "error"}

\* C14: every submitted task eventually has the status 'completed' or
\* 'error'.
C14_TaskTerminates == HasTask ~> Terminal

C14_Witness ==
    /\ pc = "done"
    /\ Terminal
    /\ exc = "write failed"
    /\ Rec.error = "write failed"

-----------------------------------------------------------------------------
(* The output files *)

\* the texts the backend returned for chunks 1..n, one space between them
RECURSIVE JoinTexts(_)
JoinTexts(n) ==
    IF n = 0 THEN <<>>
    ELSE IF n = 1 THEN backend_returned[1].text
    ELSE JoinTexts(n - 1) \o <<" ">> \o backend_returned[n].text

FullText == Strip(JoinTexts(Len(backend_returned)))

\* C15: when the backend returned no segment for any chunk, the subtitle
\* file holds exactly one record: the index 1, the time line
\* 00:00:00,000 --> 00:00:01,000 and the whole trimmed text; a written
\* subtitle file is never empty.
C15_FallbackRecord ==
    /\ (srt_file = "written" /\ all_segments = <<>>) =>
           srt_content = << <<"1", "\n">>,
                            format_timestamp(0) \o <<" ", "-", "-", ">", " ">>
                                \o format_timestamp(1000) \o <<"\n">>,
                            FullText >>
    /\ (srt_file = "written" => srt_content # <<>>)

C15_Witness ==
    /\ srt_file = "written"
    /\ all_segments = <<>>
    /\ Len(backend_returned) >= 2
    /\ FullText # <<>>

\* C16: when the merged transcript has k >= 1 segments, the subtitle file
\* holds exactly k records in segment order; record j carries the index j,
\* the formatted start and end of the j-th merged segment and its trimmed
\* text followed by a blank line, also across chunk boundaries.
C16_OneRecordPerSegment ==
    (srt_file = "written" /\ all_segments # <<>>) =>
        /\ Len(srt_content) = 3 * Len(all_segments)
        /\ \A j \in 1..Len(all_segments) :
            /\ srt_content[3 * j - 2] = Decimal(j) \o <<"\n">>
            /\ srt_content[3 * j - 1] =
                   format_timestamp(all_segments[j].start)
                       \o <<" ", "-", "-", ">", " ">>
                       \o format_timestamp(all_segments[j].end) \o <<"\n">>
            /\ srt_content[3 * j] =
                   Strip(all_segments[j].text) \o <<"\n", "\n">>

C16_Witness ==
    /\ srt_file = "written"
    /\ Len(all_segments) = 6
    /\ Len(backend_returned) = 3
    /\ srt_content[16] = <<"6", "\n">>

\* C20: the text file holds the chunk texts in chunk order, one space
\* between consecutive chunk texts, without leading or trailing whitespace.
C20_TextJoined ==
    txt_file = "written" =>
        /\ txt_content = FullText
        /\ (txt_content # <<>> =>
               /\ Head(txt_content) \notin Whitespace
               /\ txt_content[Len(txt_content)] \notin Whitespace)

C20_Witness ==
    /\ txt_file = "written"
    /\ Len(backend_returned) = 3
    /\ backend_returned[1].text = <<"b", " ", "c">>
    /\ backend_returned[2].text = <<" ", "a">>
    /\ txt_content = <<"b", " ", "c", " ", " ", "a", " ", "b", " ", "c">>

-----------------------------------------------------------------------------
(* Requests *)

-----------------------------------------------------------------------------
(* Two tasks *)

\* every entry of the two stores that belongs to another task is the same
\* after the step, and no entry of another task appears or disappears
OthersUntouched ==
    /\ DOMAIN transcription_status' \ {task_id} =
           DOMAIN transcription_status \ {task_id}
    /\ DOMAIN transcription_results' \ {task_id} =
           DOMAIN transcription_results \ {task_id}
    /\ \A t \in DOMAIN transcription_status \ {task_id} :
           transcription_status'[t] = transcription_status[t]
    /\ \A t \in DOMAIN transcription_results \ {task_id} :
           transcription_results'[t] = transcription_results[t]

\* C18: with a second task running at the same time, every step of a
\* task's request handler and worker leaves the entries of the other task
\* in the status store and in the results store unchanged, whatever the
\* interleaving.
C18_WritesOwnEntryOnly == [][Worker => OthersUntouched]_vars

C18_Witness ==
    /\ pc = "L269"
    /\ task_id \in DOMAIN transcription_results
    /\ HasOther
    /\ OtherRec.status = St("downloading")
    /\ Rec.status = St("completed")

-----------------------------------------------------------------------------
(* format_timestamp *)

\* HH:MM:SS,mmm with the fields computed on whole milliseconds
ExactTimestamp(t) ==
    Pad(t \div 3600000, 2) \o <<":">> \o Pad((t \div 60000) % 60, 2) \o <<":">>
    \o Pad((t \div 1000) % 60, 2) \o <<",">> \o Pad(t % 1000, 3)

\* C19: for a timestamp of t whole milliseconds, format_timestamp prints
\* hours = t div 3600000, minutes = (t div 60000) mod 60, seconds =
\* (t div 1000) mod 60 and milliseconds = t mod 1000; 3725400 ms gives
\* 01:02:05,400 and 0 gives 00:00:00,000.
C19_FieldsExact ==
    fmt_output # <<>> =>
        /\ fmt_output = ExactTimestamp(fmt_input)
        /\ (fmt_input = 3725400 =>
               fmt_output = <<"0", "1", ":", "0", "2", ":", "0", "5", ",",
                              "4", "0", "0">>)
        /\ (fmt_input = 0 =>
               fmt_output = <<"0", "0", ":", "0", "0", ":", "0", "0", ",",
                              "0", "0", "0">>)

-----------------------------------------------------------------------------
(* Temporary files *)

\* the file the next step of the worker reads, measures, sends or removes
ReferencedNext ==
    IF pc \in {"L154", "L102", "L115"} THEN {Orig}
    ELSE IF pc = "L159" THEN {audio_chunks[1]}
    ELSE IF pc \in {"L183", "L184", "L191", "L192", "L217"}
         THEN {audio_chunks[i + 1]}
    ELSE {}

\* the step removes the original asset inside the splitter
OriginalRemovedBySplit == pc = "L115" /\ Exists(Orig) /\ Orig \notin DOMAIN files'

\* C21: the splitter removes the original only when all N chunk files have
\* been exported, and every file a step of the pipeline opens, measures or
\* sends to the backend is on disk: no file is used after it was deleted.
C21_NoUseAfterDelete ==
    /\ [](ReferencedNext \subseteq DOMAIN files)
    /\ [][OriginalRemovedBySplit =>
             /\ Len(chunk_files) = num_chunks
             /\ Len(audio_chunks') = num_chunks
             /\ \A k \in 1..num_chunks : k \in DOMAIN files]_vars

C21_Witness ==
    /\ pc = "L191"
    /\ ~split_failed
    /\ num_chunks = 3
    /\ i = 1
    /\ ~Exists(Orig)
    /\ ~Exists(audio_chunks[1])
    /\ Exists(audio_chunks[2])

-----------------------------------------------------------------------------
(* The order of the backend calls *)

\* a request was sent and the backend has neither answered nor failed
InFlight == pc = "L192"

\* C22: the chunks go to the backend in index order, one at a time: the
\* calls started so far are those for chunks 0, 1, 2, ... in this order, a
\* call is started only when every earlier one has returned, at most one is
\* in flight, and a task that completes has sent each chunk exactly once.
C22_ChunksInOrder ==
    /\ backend_calls = [j \in 1..Len(backend_calls) |-> j - 1]
    /\ Len(backend_calls) <= NChunks
    /\ Len(backend_calls) - Len(backend_returned) \in {0, 1}
    /\ (Len(backend_calls) = Len(backend_returned) + 1) =
           (InFlight \/ exc = "backend failed")
    /\ (InFlight => i = Len(backend_returned))
    /\ ((HasTask /\ Rec.status = St("completed")) =>
           /\ backend_calls = [j \in 1..NChunks |-> j - 1]
           /\ Len(backend_returned) = NChunks)

C22_Witness ==
    /\ InFlight
    /\ NChunks = 4
    /\ backend_calls = <<0, 1, 2>>
    /\ Len(backend_returned) = 2

-----------------------------------------------------------------------------
(* Rendering a transcript again *)

\* C23: every rendering of one transcript leaves the same text file and the
\* same subtitle file, and both are what the writer makes of the transcript
\* alone.
C23_RenderingRepeatable ==
    /\ \A a, b \in 1..Len(renders) : renders[a] = renders[b]
    /\ \A a \in 1..Len(renders) :
        /\ renders[a].txt = render_transcript.text
        /\ renders[a].srt = SrtWrites(render_transcript.text,
                                      render_transcript.segments)

C23_Witness ==
    /\ Len(renders) = 2
    /\ Len(render_transcript.segments) = 2
    /\ render_transcript.text # <<>>
    /\ renders[2].srt # <<>>
    /\ renders[1] = renders[2]

-----------------------------------------------------------------------------
(* What a finished task leaves behind *)

\* C24: once the task's status is 'completed' or 'error', neither the
\* downloaded original nor any chunk file is on disk.
C24_NoTemporaryFilesLeft == Terminal => DOMAIN files = {}

-----------------------------------------------------------------------------
(* The results store *)

\* C25: the task has a results entry, and the download endpoint serves its
\* files, only when both output files have been written completely and the
\* status is 'completed'; a task with status 'error' has no results entry.
C25_ResultsOnlyWhenComplete ==
    /\ (task_id \in DOMAIN transcription_results =>
           /\ txt_file = "written"
           /\ srt_file = "written"
           /\ txt_content = FullText
           /\ srt_content = SrtWrites(FullText, all_segments)
           /\ Rec.status = St("completed"))
    /\ \A file_type \in {"txt", "srt"} :
           download_file(file_type) = "file" =>
               /\ task_id \in DOMAIN transcription_results
               /\ Rec.status = St("completed")
    /\ ((HasTask /\ Rec.status = St("error")) =>
           /\ task_id \notin DOMAIN transcription_results
           /\ download_file("txt") = "404"
           /\ download_file("srt") = "404")

C25_Witness ==
    /\ pc = "done"
    /\ task_id \in DOMAIN transcription_results
    /\ download_file("txt") = "file"
    /\ download_file("srt") = "file"
    /\ Len(srt_content) >= 6

====
